---- MODULE Spec2Model ----
(***************************************************************************)
(* Serato crates sync (src/src/serato_crates_sync/cli.py).                 *)
(*                                                                         *)
(* Strings are sequences of one-character tokens.  A token whose name is   *)
(* longer than one character stands for one Unicode code point that has    *)
(* no ASCII spelling ("ZWSP" is U+200B, "ELLIPSIS" is U+2026, ...), or     *)
(* for the suffix of a file name (".mp3").                                 *)
(***************************************************************************)
EXTENDS Integers, Sequences, FiniteSets, TLC

(***************************************************************************)
(* Characters and strings                                                  *)
(***************************************************************************)

\* cli.py:482  invisible_chars: U+200B U+200C U+200D U+200E U+200F U+FEFF U+00AD
InvisibleChars == {"ZWSP", "ZWNJ", "ZWJ", "LRM", "RLM", "BOM", "SHY"}

\* cli.py:490  characters replaced by '-'
ReservedChars == {"/", "\\", ":", "*", "?", "\"", "<", ">", "|"}

\* str.strip() / str.rstrip() with no argument remove whitespace
WhitespaceChars == {" "}

\* Length in bytes of the UTF-8 encoding of one code point.
Utf8Len(c) ==
    CASE c \in {"E_ACUTE", "COMB_ACUTE", "SHY"} -> 2
      [] c \in {"ZWSP", "ZWNJ", "ZWJ", "LRM", "RLM", "BOM", "ELLIPSIS"} -> 3
      [] OTHER -> 1

RECURSIVE Utf8Bytes(_)
\* len(s.encode('utf-8'))
Utf8Bytes(s) == IF s = <<>> THEN 0 ELSE Utf8Len(Head(s)) + Utf8Bytes(Tail(s))

\* s[:-1]
DropLast(s) == SubSeq(s, 1, Len(s) - 1)

RECURSIVE RStrip(_)
\* str.rstrip()
RStrip(s) ==
    IF s # <<>> /\ s[Len(s)] \in WhitespaceChars THEN RStrip(DropLast(s)) ELSE s

RECURSIVE LStrip(_)
\* the leading half of str.strip()
LStrip(s) ==
    IF s # <<>> /\ Head(s) \in WhitespaceChars THEN LStrip(Tail(s)) ELSE s

\* str.strip()
Strip(s) == LStrip(RStrip(s))

RECURSIVE NFC(_)
\* unicodedata.normalize('NFC', s) on the code points of the model: the only
\* canonical composition among them is e + U+0301 -> U+00E9.
NFC(s) ==
    IF Len(s) < 2 THEN s
    ELSE IF s[1] = "e" /\ s[2] = "COMB_ACUTE"
         THEN <<"E_ACUTE">> \o NFC(SubSeq(s, 3, Len(s)))
         ELSE <<s[1]>> \o NFC(Tail(s))

\* the loops of str.replace at cli.py:483-484 and cli.py:490-491
RemoveInvisible(s) == SelectSeq(s, LAMBDA c : c \notin InvisibleChars)

ReplaceReserved(s) == [i \in 1..Len(s) |-> IF s[i] \in ReservedChars THEN "-" ELSE s[i]]

RECURSIVE TruncateToBytes(_, _)
\* while len(filename.encode('utf-8')) > max_bytes: filename = filename[:-1]
TruncateToBytes(s, max_bytes) ==
    IF Utf8Bytes(s) > max_bytes /\ s # <<>>
    THEN TruncateToBytes(DropLast(s), max_bytes)
    ELSE s

\* a sanitize that normalizes before it removes the invisible characters
sanitize_crate_filename_NormalizesFirst(filename, max_bytes) ==
    LET normal  == NFC(filename)
        visible == RemoveInvisible(normal)
        safe    == ReplaceReserved(visible)
        cut     == IF Utf8Bytes(safe) > max_bytes
                   THEN RStrip(TruncateToBytes(safe, max_bytes)) \o <<"ELLIPSIS">>
                   ELSE safe
    IN  Strip(cut)

\* def sanitize_crate_filename(filename, max_bytes=240)
sanitize_crate_filename(filename, max_bytes) ==
    LET visible == RemoveInvisible(filename)
        normal  == NFC(visible)
        safe    == ReplaceReserved(normal)
        cut     == IF Utf8Bytes(safe) > max_bytes
                   THEN RStrip(TruncateToBytes(safe, max_bytes)) \o <<"ELLIPSIS">>
                   ELSE safe
    IN  Strip(cut)

\* the default of max_bytes
DefaultMaxBytes == 240

\* the default of --subcrate-delimiter / subcrate_delimiter
SubcrateDelimiter == <<"%", "%">>

(***************************************************************************)
(* The music folder: create_sync_plan and the tree builder                 *)
(***************************************************************************)

\* Tokens in code-point order: sorted() compares names code point by code
\* point.  A suffix token sorts as the '.' it starts with.
CharOrder ==
    << " ", "\"", "%", "*", "-", ".", ".MP3", ".aif", ".aiff", ".crate", ".flac",
       ".m4a", ".mp3", ".txt", ".wav", "/", "1", "2", "3", ":", "<", ">", "?", "A", "B", "M", "X", "Y",
       "\\", "a", "b", "e", "h", "r", "s", "t", "u", "|", "SHY", "E_ACUTE",
       "COMB_ACUTE", "ZWSP", "ZWNJ", "ZWJ", "LRM", "RLM", "ELLIPSIS", "BOM" >>

Rank(c) == CHOOSE i \in 1..Len(CharOrder) : CharOrder[i] = c

RECURSIVE StrLess(_, _)
\* s < t for Python strings
StrLess(s, t) ==
    IF t = <<>> THEN FALSE
    ELSE IF s = <<>> THEN TRUE
    ELSE IF Head(s) = Head(t) THEN StrLess(Tail(s), Tail(t))
    ELSE Rank(Head(s)) < Rank(Head(t))

SuffixTokens ==
    {".MP3", ".aif", ".aiff", ".crate", ".flac", ".m4a", ".mp3", ".txt", ".wav"}

\* Path.suffix: the last dot-part of the name, none for a name that is only that
PathSuffix(name) ==
    IF Len(name) > 1 /\ name[Len(name)] \in SuffixTokens THEN name[Len(name)] ELSE ""

\* Path.stem
PathStem(name) == IF PathSuffix(name) = "" THEN name ELSE DropLast(name)

\* str.lower() on a suffix
Lower(suffix) == IF suffix = ".MP3" THEN ".mp3" ELSE suffix

\* name == "."
StartsWithDot_IsDot(name) == name = <<".">>

\* name.startswith(".")
StartsWithDot(name) == name # <<>> /\ Head(name) \in ({"."} \cup SuffixTokens)

\* cli.py:25; main's default --extensions parses to the same set.
DEFAULT_AUDIO_EXTENSIONS == {".mp3", ".m4a", ".aiff", ".aif", ".wav", ".flac"}

\* A music folder is a function from path ids to directory entries
\* [name, parent, isdir, denied]; root is the id of music_root, parent 0 is
\* outside the folder.  denied: listing the directory raises PermissionError.
Dir(name, parent)    == [name |-> name, parent |-> parent, isdir |-> TRUE, denied |-> FALSE]
Locked(name, parent) == [name |-> name, parent |-> parent, isdir |-> TRUE, denied |-> TRUE]
File(name, parent)   == [name |-> name, parent |-> parent, isdir |-> FALSE, denied |-> FALSE]

\* folder.iterdir(), as a set: the order of the listing is the file system's
IterDir(fs, folder) == {p \in DOMAIN fs : fs[p].parent = folder}

RECURSIVE SortedPaths(_, _)
\* sorted(paths): the entries of one directory have distinct names
SortedPaths(fs, paths) ==
    IF paths = {} THEN <<>>
    ELSE LET first == CHOOSE p \in paths :
                        \A q \in paths \ {p} : StrLess(fs[p].name, fs[q].name)
         IN  <<first>> \o SortedPaths(fs, paths \ {first})

\* def is_audio_file(path, extensions)
is_audio_file(fs, path, extensions) ==
    ~fs[path].isdir /\ Lower(PathSuffix(fs[path].name)) \in extensions

\* def scan_folder_for_tracks(folder, extensions)
scan_folder_for_tracks(fs, folder, extensions) ==
    IF fs[folder].denied THEN <<>>
    ELSE SelectSeq(SortedPaths(fs, IterDir(fs, folder)),
                   LAMBDA item : is_audio_file(fs, item, extensions))

\* the parent_name argument of the recursive call, cli.py:126 (None is <<>>)
ChildParentName(parent_name, crate_name) ==
    IF parent_name = <<>> THEN crate_name
    ELSE parent_name \o <<"%", "%">> \o crate_name

\* if tracks or include_empty:
IncludesCrate_ForgetsChildren(tracks, children, include_empty) ==
    tracks # <<>> \/ include_empty

\* cli.py:135: if tracks or children or include_empty
IncludesCrate(tracks, children, include_empty) ==
    tracks # <<>> \/ children # <<>> \/ include_empty

RECURSIVE build_crate_tree(_, _, _, _, _)
RECURSIVE BuildChildren(_, _, _, _, _)
\* the loop over sorted(folder.iterdir()), cli.py:121-130
BuildChildren(fs, subfolders, extensions, parent_name, include_empty) ==
    IF subfolders = <<>> THEN <<>>
    ELSE LET subfolder == Head(subfolders)
             rest == BuildChildren(fs, Tail(subfolders), extensions, parent_name,
                                   include_empty)
         IN  IF fs[subfolder].isdir /\ ~StartsWithDot(fs[subfolder].name)
             THEN build_crate_tree(fs, subfolder, extensions, parent_name,
                                   include_empty) \o rest
             ELSE rest

\* def build_crate_tree(folder, extensions, parent_name=None, include_empty=False)
\* Optional[CratePlan] is a sequence: <<>> for None, <<crate>> for a crate.
build_crate_tree(fs, folder, extensions, parent_name, include_empty) ==
    IF ~fs[folder].isdir THEN <<>>
    ELSE LET crate_name == fs[folder].name
             tracks == scan_folder_for_tracks(fs, folder, extensions)
             children ==
                 IF fs[folder].denied THEN <<>>
                 ELSE BuildChildren(fs, SortedPaths(fs, IterDir(fs, folder)), extensions,
                                    ChildParentName(parent_name, crate_name),
                                    include_empty)
         IN  IF IncludesCrate(tracks, children, include_empty)
             THEN << [name |-> crate_name, path |-> folder,
                      parent_name |-> parent_name, tracks |-> tracks,
                      children |-> children] >>
             ELSE <<>>

\* a count of the crates of the top level and their children only
CountCrates_TwoLevels(crates) ==
    Len(crates) + (IF crates = <<>> THEN 0 ELSE Len(Head(crates).children))

RECURSIVE CountCrates(_)
RECURSIVE CountTracks(_)
\* total_crates of count_crates_and_tracks(crates)
CountCrates(crates) ==
    IF crates = <<>> THEN 0
    ELSE 1 + CountCrates(Head(crates).children) + CountCrates(Tail(crates))

\* total_tracks of count_crates_and_tracks(crates)
CountTracks(crates) ==
    IF crates = <<>> THEN 0
    ELSE Len(Head(crates).tracks) + CountTracks(Head(crates).children)
         + CountTracks(Tail(crates))

\* def count_crates_and_tracks(crates)
count_crates_and_tracks(crates) == <<CountCrates(crates), CountTracks(crates)>>

\* def get_subcrates_folder / the name of a crate file: f"{crate_filename}.crate"
CrateFileName(crate_filename) == crate_filename \o <<".crate">>

\* Path.glob("*.crate"): every entry whose name ends in ".crate"
IsCrateFile(name) == name # <<>> /\ name[Len(name)] = ".crate"

\* def get_existing_crate_names(serato_root); subcrates is <<>> when the
\* Subcrates folder does not exist, else <<files>>, files a function from the
\* names of its entries to their contents
get_existing_crate_names(subcrates) ==
    IF subcrates = <<>> THEN {}
    ELSE {PathStem(f) : f \in {g \in DOMAIN subcrates[1] : PathSuffix(g) = ".crate"}}

\* def create_sync_plan(music_root, serato_root, extensions, include_empty)
create_sync_plan(fs, music_root, subcrates, extensions, include_empty) ==
    LET crates == build_crate_tree(fs, music_root, extensions, <<>>, include_empty)
        totals == count_crates_and_tracks(crates)
    IN  [music_root |-> music_root, crates |-> crates,
         total_tracks |-> totals[2], total_crates |-> totals[1],
         existing_crates |-> get_existing_crate_names(subcrates)]

(***************************************************************************)
(* The music folders and Serato roots the runs are given                   *)
(***************************************************************************)

\* M/ with B/ (empty), A/ (two tracks, one with an upper-case suffix, and a
\* text file) and .h/ (hidden, one track): the scenario of the tests.
MusicScenario ==
    << Dir(<<"M">>, 0), Dir(<<"B">>, 1), Dir(<<"A">>, 1),
       File(<<"t", "2", ".MP3">>, 3), File(<<"t", "1", ".mp3">>, 3),
       File(<<"r", ".txt">>, 3), Dir(<<".", "h">>, 1), File(<<"s", ".mp3">>, 7) >>

\* M/ with a track, and two subfolders whose names differ only in a
\* character that is not allowed in a file name.
MusicReserved ==
    << Dir(<<"M">>, 0), File(<<"u", ".wav">>, 1), Dir(<<"a", "?">>, 1),
       File(<<"t", ".mp3">>, 3), Dir(<<"a", ":">>, 1), File(<<"s", ".m4a">>, 5) >>

\* M/X/Y/ with one track at the bottom, and a folder that cannot be listed.
MusicNested ==
    << Dir(<<"M">>, 0), Dir(<<"X">>, 1), Dir(<<"Y">>, 2),
       File(<<"t", ".mp3">>, 3), Locked(<<"B">>, 1) >>

\* M/ with no audio file at all.
MusicEmpty == << Dir(<<"M">>, 0), File(<<"r", ".txt">>, 1) >>

MusicFolders == {MusicScenario, MusicReserved, MusicNested, MusicEmpty}

\* The entries below the root of a generated music folder, at most.
MaxEntries == 3

\* names of the entries of a generated folder, by position
EntryNames == << <<"A">>, <<"B">>, <<"X">>, <<"Y">>, <<"a">>, <<"b">> >>

\* what an entry of a generated folder is: a folder, a hidden folder, a
\* folder that cannot be listed, an audio file, a file that is no audio file
EntryKinds == {"dir", "hidden", "locked", "audio", "text"}

\* the entry of a kind, with the name of its position, in a parent folder
Entry(kind, name, parent) ==
    CASE kind = "dir"    -> Dir(name, parent)
      [] kind = "hidden" -> Dir(<<".">> \o name, parent)
      [] kind = "locked" -> Locked(name, parent)
      [] kind = "audio"  -> File(name \o <<".mp3">>, parent)
      [] kind = "text"   -> File(name \o <<".txt">>, parent)

\* where the entries of the given kinds may be: each inside the root (1) or a
\* folder made before it
ParentChoices(kinds) ==
    { ps \in [1..MaxEntries -> 1..MaxEntries] :
        \A i \in 1..MaxEntries :
           /\ ps[i] <= i
           /\ ps[i] > 1 => kinds[ps[i] - 1] \in {"dir", "hidden", "locked"} }

\* Every music folder with a root, hidden or not, and MaxEntries entries
\* below it.
GeneratedFolders ==
    UNION { { << Dir(root_name, 0) >>
                \o [i \in 1..MaxEntries |-> Entry(kinds[i], EntryNames[i], parents[i])] :
              parents \in ParentChoices(kinds) } :
            root_name \in { <<"M">>, <<".", "M">> },
            kinds \in [1..MaxEntries -> EntryKinds] }

\* The contents of an entry of Subcrates: who wrote it ("pre": it was there
\* before the run, "lib": SeratoCrate.write, "bin": write_crate_binary,
\* "partial": a write that failed half way) and the tracks written.
Pre(n) == [writer |-> "pre", crate |-> n, tracks |-> <<>>]
Partial == [writer |-> "partial", crate |-> 0, tracks |-> <<>>]

NoFiles == [f \in {} |-> Partial]

\* Subcrates folders a run may find: none, an empty one, the one of the tests
\* (a crate of another name, and a file that is no crate), and one that holds
\* crates of the names the plan will write.
InitialSubcrates ==
    { <<>>,
      << NoFiles >>,
      << (<<"e", ".crate">> :> Pre(1)) @@ (<<"r", ".txt">> :> Pre(2)) >>,
      << (<<"M", ".crate">> :> Pre(1)) @@ (<<"M", "%", "%", "A", ".crate">> :> Pre(2))
         @@ (<<"M", "%", "%", "a", "-", ".crate">> :> Pre(3)) >> }

\* Seconds of the wall clock a run may start in.
MaxClock == 2

NoBackups == [t \in {} |-> NoFiles]

\* Backup folders of earlier runs: none, or one made in second 1.
InitialBackups ==
    { NoBackups, 1 :> ((<<"e", ".crate">> :> Pre(1)) @@ (<<"r", ".txt">> :> Pre(2))) }

(***************************************************************************)
(* The relational store: root.sqlite with its container and serato tables  *)
(***************************************************************************)

\* one row of container
Row(id, rev, parent_id, name, type, list_order, time_added, portable_id) ==
    [id |-> id, revision |-> rev, parent_id |-> parent_id, name |-> name,
     type |-> type, list_order |-> list_order, time_added |-> time_added,
     expanded |-> 0, portable_id |-> portable_id]

\* the tables of one database file; serato is the sequence of its rows
Tables(container, serato) == [container |-> container, serato |-> serato]

\* A library with the crate M, its subcrate A, a container of another type
\* under M, and a top-level container of another type.
LibraryRows ==
    { Row(1, 1, 0, <<"M">>, 1, 1, 0, <<"crate://", "M">>),
      Row(2, 2, 1, <<"A">>, 1, 1, 0, <<"crate://", "M", "%", "%", "A">>),
      Row(3, 3, 1, <<"s">>, 2, 2, 0, <<"smart://", "s">>),
      Row(4, 4, 0, <<"t">>, 3, 2, 0, <<"itunes://", "t">>) }

\* Database files a call may find: none, an empty library, the library
\* above, and an empty library whose serato table has no row.
InitialDatabases ==
    { <<>>,
      << Tables({}, << [revision |-> 3] >>) >>,
      << Tables(LibraryRows, << [revision |-> 4] >>) >>,
      << Tables({}, <<>>) >> }

\* the largest number of a non-empty set
Max(S) == CHOOSE x \in S : \A y \in S : y <= x

\* cli.py:745-747: SELECT revision FROM serato LIMIT 1; row[0] if row else 1
SelectRevision(tables) ==
    IF tables.serato = <<>> THEN 1 ELSE tables.serato[1].revision

\* SELECT COALESCE(MAX(list_order), 0) + 1 FROM container WHERE parent_id = 0
\* AND type = 1
SelectNextOrder_CratesOnly(tables) ==
    LET top == {r \in tables.container : r.parent_id = 0 /\ r.type = 1}
    IN  IF top = {} THEN 1 ELSE Max({r.list_order : r \in top}) + 1

\* cli.py:750-753: SELECT COALESCE(MAX(list_order), 0) + 1 FROM container
\* WHERE parent_id = 0
SelectNextOrder(tables) ==
    LET top == {r \in tables.container : r.parent_id = 0}
    IN  IF top = {} THEN 1 ELSE Max({r.list_order : r \in top}) + 1

\* the lookup with the type of another kind of container
SelectExisting_WrongType(tables, parent_id, name) ==
    LET found == {r.id : r \in {q \in tables.container :
                      q.parent_id = parent_id /\ q.name = name /\ q.type = 2}}
    IN  IF found = {} THEN <<>> ELSE << CHOOSE i \in found : \A j \in found : i <= j >>

\* cli.py:771-775: SELECT id FROM container WHERE parent_id = ? AND name = ?
\* AND type = 1, then fetchone(): <<>> for None, else <<id>>; the scan of the
\* table yields the rows in the order of their ids
SelectExisting(tables, parent_id, name) ==
    LET found == {r.id : r \in {q \in tables.container :
                      q.parent_id = parent_id /\ q.name = name /\ q.type = 1}}
    IN  IF found = {} THEN <<>> ELSE << CHOOSE i \in found : \A j \in found : i <= j >>

\* cursor.lastrowid of an INSERT: one more than the largest id of the table
LastRowId(tables) ==
    IF tables.container = {} THEN 1 ELSE Max({r.id : r \in tables.container}) + 1

\* an INSERT after UPDATE container SET list_order = list_order + 1 WHERE
\* parent_id = ? AND list_order >= ?, which makes room among the siblings
InsertCrate_Renumbers(tables, rev, parent_id, name, list_order, time_added, display_name) ==
    [tables EXCEPT !.container =
        {IF r.parent_id = parent_id /\ r.list_order >= list_order
         THEN [r EXCEPT !.list_order = @ + 1] ELSE r : r \in @}
        \cup {Row(LastRowId(tables), rev, parent_id, name, 1, list_order, time_added,
                  <<"crate://">> \o display_name)}]

\* cli.py:785-791: INSERT INTO container (revision, parent_id, name, type,
\* list_order, time_added, expanded, portable_id) VALUES (?, ?, ?, 1, ?, ?, 0, ?)
InsertCrate(tables, rev, parent_id, name, list_order, time_added, display_name) ==
    [tables EXCEPT !.container =
        @ \cup {Row(LastRowId(tables), rev, parent_id, name, 1, list_order, time_added,
                    <<"crate://">> \o display_name)}]

\* UPDATE serato SET revision = revision + 1
UpdateRevision_Increment(tables, rev) ==
    [tables EXCEPT !.serato = [i \in DOMAIN @ |-> [revision |-> @[i].revision + 1]]]

\* cli.py:810: UPDATE serato SET revision = ?
UpdateRevision(tables, rev) ==
    [tables EXCEPT !.serato = [i \in DOMAIN @ |-> [revision |-> rev]]]

RECURSIVE Cascade(_, _)
\* ON DELETE CASCADE of container.parent_id: the rows whose parent was deleted
\* are deleted, and so on down
Cascade(container, deleted_ids) ==
    LET orphans == {r \in container : r.parent_id \in deleted_ids}
    IN  IF orphans = {} THEN container
        ELSE Cascade(container \ orphans, {r.id : r \in orphans})

\* cli.py:690-692: DELETE FROM container WHERE type = 1 AND parent_id = 0, on a
\* connection whose foreign-key enforcement is whatever sqlite3.connect gave it
DeleteTopLevelCrates(container, enforce_foreign_keys) ==
    LET doomed == {r \in container : r.type = 1 /\ r.parent_id = 0}
    IN  IF enforce_foreign_keys
        THEN Cascade(container \ doomed, {r.id : r \in doomed})
        ELSE container \ doomed

(***************************************************************************)
(* State                                                                   *)
(***************************************************************************)
VARIABLES
    music,            \* the folder under --music-root
    args,             \* the parsed command line
    library,          \* whether `from serato_crate import SeratoCrate` succeeds
    clock,            \* datetime.now(), in seconds
    subcrates,        \* <serato_root>/Subcrates: <<>> or <<files>>
    backups,          \* <serato_root>/Subcrates.BACKUP.<t>, by t
    pc,               \* where the run is
    plan,             \* <<>>, or <<the SyncPlan>>
    backup_path,      \* execute_sync's backup_path: <<>> for None, or <<t>>
    deleted,          \* execute_sync's deleted: what clean_existing_crates returned
    overwrite,        \* the overwrite argument of the write step
    stack,            \* the pending calls of the recursive writer, next first
    crates_created,
    crates_skipped,
    outcome,          \* how the run ended
    log,              \* history: what was done for each plan node, in order
    before,           \* history: Subcrates, the backups and the database when the run began
    db,               \* <cache>/Library/root.sqlite as committed: <<>> or <<tables>>
    txn,              \* the tables as the open connection sees them: <<>> or <<tables>>
    foreign_keys,     \* PRAGMA foreign_keys of a new connection
    revision,         \* write_crates_to_sqlite's revision
    next_order,       \* write_crates_to_sqlite's next_order
    runs,             \* calls of the database functions, or runs of the command, so far
    prev,             \* history: <<>>, or <<how the call before this one ended>>
    given,            \* the arguments of a function called on its own
    returned          \* what its calls returned, in order

fn   == <<given, returned>>
env  == <<music, args, library, clock, fn>>
disk == <<subcrates, backups>>
run  == <<pc, plan, backup_path, deleted, overwrite, stack, crates_created, crates_skipped,
          outcome, log, before>>
sql  == <<db, txn, foreign_keys, revision, next_order, runs, prev>>
vars == <<env, disk, run, sql>>

RunInit ==
    /\ pc = "main"
    /\ plan = <<>>
    /\ backup_path = <<>>
    /\ deleted = 0
    /\ overwrite = FALSE
    /\ stack = <<>>
    /\ crates_created = 0
    /\ crates_skipped = 0
    /\ outcome = "running"
    /\ log = <<>>
    /\ given = <<>>
    /\ returned = <<>>

\* A process started as `serato-crates sync ...`, before main has done anything.
Init ==
    /\ music \in MusicFolders
    /\ args \in [apply : BOOLEAN, overwrite : BOOLEAN, clean : BOOLEAN,
                 include_empty : BOOLEAN]
    /\ library \in BOOLEAN
    /\ clock \in 1..MaxClock
    /\ subcrates \in InitialSubcrates
    /\ backups \in InitialBackups
    /\ RunInit
    /\ db = << Tables(LibraryRows, << [revision |-> 4] >>) >>
    /\ txn = <<>>
    /\ foreign_keys = FALSE
    /\ revision = 0
    /\ next_order = 0
    /\ runs = 0
    /\ prev = <<>>
    /\ before = [subcrates |-> subcrates, backups |-> backups, db |-> db]

(***************************************************************************)
(* main and execute_sync                                                   *)
(***************************************************************************)

\* main, cli.py:1032-1042: create_sync_plan and print_plan
MainPlan ==
    /\ pc = "main"
    /\ plan' = << create_sync_plan(music, 1, subcrates, DEFAULT_AUDIO_EXTENSIONS,
                                   args.include_empty) >>
    /\ pc' = "planned"
    /\ UNCHANGED <<env, sql, disk, backup_path, deleted, overwrite, stack, crates_created,
                   crates_skipped, outcome, log, before>>

\* a main that goes on to execute_sync without --apply
MainDryRun_FallsThrough ==
    /\ pc = "planned"
    /\ ~args.apply
    /\ pc' = "backup"
    /\ UNCHANGED <<env, sql, disk, plan, backup_path, deleted, overwrite, stack,
                   crates_created, crates_skipped, outcome, log, before>>

\* main, cli.py:1044-1049: without --apply, return 0
MainDryRun ==
    /\ pc = "planned"
    /\ ~args.apply
    /\ pc' = "exit"
    /\ outcome' = "dry_run"
    /\ UNCHANGED <<env, sql, disk, plan, backup_path, deleted, overwrite, stack, crates_created,
                   crates_skipped, log, before>>

\* an execute_sync that starts without the call of backup_subcrates
MainApply_NoBackup ==
    /\ pc = "planned"
    /\ args.apply
    /\ pc' = "mkdir"
    /\ UNCHANGED <<env, sql, disk, plan, backup_path, deleted, overwrite, stack,
                   crates_created, crates_skipped, outcome, log, before>>

\* main, cli.py:1051-1062: with --apply, call execute_sync, whose first
\* statement is the call of backup_subcrates
MainApply ==
    /\ pc = "planned"
    /\ args.apply
    /\ pc' = "backup"
    /\ UNCHANGED <<env, sql, disk, plan, backup_path, deleted, overwrite, stack, crates_created,
                   crates_skipped, outcome, log, before>>

\* The strict parts of a folder that shutil.copytree may leave behind when
\* copying a file fails.
PartialCopies(files) ==
    {[f \in keep |-> files[f]] : keep \in (SUBSET DOMAIN files) \ {DOMAIN files}}

\* an execute_sync that logs the exception of the backup and goes on
BackupRaised_Swallowed == [pc |-> "mkdir", outcome |-> "running"]

\* execute_sync, cli.py:845: the call of backup_subcrates is in no try block, so
\* an exception of shutil.copytree leaves execute_sync and main: the run ends
\* with a traceback and nothing after the call is executed.
BackupRaised == [pc |-> "exit", outcome |-> "raised"]

\* a backup_subcrates without the test of subcrates.exists(): copytree raises
\* for a source that is not there
backup_subcrates_NoExistsTest ==
    /\ pc = "backup"
    /\ \/ /\ subcrates = <<>>
          /\ pc' = BackupRaised.pc
          /\ outcome' = BackupRaised.outcome
          /\ UNCHANGED <<backups, backup_path>>
       \/ /\ subcrates # <<>>
          /\ clock \notin DOMAIN backups
          /\ backups' = (clock :> subcrates[1]) @@ backups
          /\ backup_path' = <<clock>>
          /\ pc' = "mkdir"
          /\ UNCHANGED outcome
    /\ UNCHANGED <<env, sql, subcrates, plan, deleted, overwrite, stack, crates_created,
                   crates_skipped, log, before>>

\* def backup_subcrates(serato_root), as execute_sync calls it (cli.py:845).
\* shutil.copytree raises when the backup folder of this second exists, and
\* when making the folder or copying a file fails; execute_sync catches
\* nothing, so the exception ends the run.
backup_subcrates ==
    /\ pc = "backup"
    /\ \/ /\ subcrates = <<>>
          /\ backup_path' = <<>>
          /\ pc' = "mkdir"
          /\ UNCHANGED <<backups, outcome>>
       \/ /\ subcrates # <<>>
          /\ clock \notin DOMAIN backups
          /\ backups' = (clock :> subcrates[1]) @@ backups
          /\ backup_path' = <<clock>>
          /\ pc' = "mkdir"
          /\ UNCHANGED outcome
       \/ /\ subcrates # <<>>
          /\ \/ UNCHANGED backups
             \/ /\ clock \notin DOMAIN backups
                /\ \E part \in PartialCopies(subcrates[1]) :
                      backups' = (clock :> part) @@ backups
          /\ pc' = BackupRaised.pc
          /\ outcome' = BackupRaised.outcome
          /\ UNCHANGED backup_path
    /\ UNCHANGED <<env, sql, subcrates, plan, deleted, overwrite, stack, crates_created,
                   crates_skipped, log, before>>

\* execute_sync, cli.py:849-854: subcrates.mkdir(parents=True, exist_ok=True),
\* then the test of clean
EnsureSubcrates ==
    /\ pc = "mkdir"
    /\ subcrates' = IF subcrates = <<>> THEN <<NoFiles>> ELSE subcrates
    /\ pc' = IF args.clean THEN "clean" ELSE "write"
    /\ UNCHANGED <<env, sql, backups, plan, backup_path, deleted, overwrite, stack, crates_created,
                   crates_skipped, outcome, log, before>>

\* files without the entries named in gone
Without(files, gone) == [f \in DOMAIN files \ gone |-> files[f]]

\* def clean_existing_crates(serato_root), as execute_sync calls it
\* (cli.py:856): unlink every *.crate; an unlink that raises is logged and
\* the file stays.
\* subcrates.glob("*")
GlobCrates_Everything(files) == DOMAIN files

\* subcrates.glob("*.crate")
GlobCrates(files) == {f \in DOMAIN files : IsCrateFile(f)}

clean_existing_crates ==
    /\ pc = "clean"
    /\ \E undeletable \in SUBSET GlobCrates(subcrates[1]) :
          /\ subcrates' = << Without(subcrates[1],
                                     GlobCrates(subcrates[1]) \ undeletable) >>
          /\ deleted' = Cardinality(GlobCrates(subcrates[1]) \ undeletable)
    /\ pc' = "write"
    /\ UNCHANGED <<env, sql, backups, plan, backup_path, overwrite, stack, crates_created,
                   crates_skipped, outcome, log, before>>

\* overwrite=overwrite
WriteOverwrite_CallerOnly(caller_overwrite, clean) == caller_overwrite

\* execute_sync, cli.py:863: the overwrite argument of the write step
WriteOverwrite(caller_overwrite, clean) == caller_overwrite \/ clean

\* the calls `for crate_plan in plan.crates: write_crate_recursive(crate_plan)`
\* and `for child in crate_plan.children: write_crate_recursive(child, crate_filename)`
Calls(crates, parent_prefix) ==
    [i \in 1..Len(crates) |-> [crate_plan |-> crates[i], parent_prefix |-> parent_prefix]]

\* def write_crates_with_serato_crate(plan, overwrite, subcrate_delimiter,
\* path_mode), cli.py:523-533 and 613-616, up to the first call of
\* write_crate_recursive: without the library it returns (0, 0) at once.
write_crates_with_serato_crate ==
    /\ pc = "write"
    /\ overwrite' = WriteOverwrite(args.overwrite, args.clean)
    /\ crates_created' = 0
    /\ crates_skipped' = 0
    /\ IF library
       THEN /\ stack' = Calls(plan[1].crates, <<>>)
            /\ pc' = "write_crate"
       ELSE /\ stack' = <<>>
            /\ pc' = "report"
    /\ UNCHANGED <<env, sql, disk, plan, backup_path, deleted, outcome, log, before>>

\* cli.py:568-575: the name of the crate file of one plan node
CrateFilename(crate_plan, parent_prefix, subcrate_delimiter) ==
    sanitize_crate_filename(
        IF parent_prefix # <<>>
        THEN parent_prefix \o subcrate_delimiter \o crate_plan.name
        ELSE crate_plan.name,
        DefaultMaxBytes)

\* what SeratoCrate.write / write_crate_binary leave in the crate file
Written(writer, crate_plan) ==
    [writer |-> writer, crate |-> crate_plan.path, tracks |-> crate_plan.tracks]

\* if crate_file.exists():
SkipsExisting_WhateverOverwrite(files, crate_file, overwrite_arg) ==
    crate_file \in DOMAIN files

\* cli.py:580: the test that skips a node
SkipsExisting(files, crate_file, overwrite_arg) ==
    crate_file \in DOMAIN files /\ ~overwrite_arg

\* a writer whose failed node ends the traversal
PendingAfter_Abort(attempt, crate_plan, crate_filename, pending) ==
    IF attempt = "failed" THEN <<>>
    ELSE Calls(crate_plan.children, crate_filename) \o pending

\* cli.py:609-611: whatever became of the node's own file, the calls for its
\* children come next, before the calls that were pending
PendingAfter(attempt, crate_plan, crate_filename, pending) ==
    Calls(crate_plan.children, crate_filename) \o pending

\* cli.py:585-599: how the try block around SeratoCrate().write ended
PrimaryOutcome(attempt) ==
    CASE attempt = "skipped" -> "none"
      [] attempt = "lib" -> "ok"
      [] OTHER -> "raised"

\* cli.py:599-607: the calls of write_crate_binary, made in the except branch
FallbackCalls(attempt) == IF attempt \in {"bin", "failed"} THEN 1 ELSE 0

\* def write_crate_recursive(crate_plan, parent_prefix), one call, up to its
\* loop over the children, whose calls are put before the pending ones.
\* attempt: "lib" the library writes the file; "bin" the library raises and
\* write_crate_binary writes it; "failed" both raise.  A write that raises
\* leaves the file as it was or half written.  The log keeps, for each call,
\* how the try block of the library ended (primary) and how many times
\* write_crate_binary was called (fallbacks).
write_crate_recursive ==
    /\ pc = "write_crate"
    /\ stack # <<>>
    /\ LET crate_plan == Head(stack).crate_plan
           crate_filename == CrateFilename(crate_plan, Head(stack).parent_prefix,
                                           SubcrateDelimiter)
           crate_file == CrateFileName(crate_filename)
           files == subcrates[1]
           entry(attempt) ==
               [path |-> crate_plan.path, file |-> crate_file,
                existed |-> crate_file \in DOMAIN files, attempt |-> attempt,
                primary |-> PrimaryOutcome(attempt),
                fallbacks |-> FallbackCalls(attempt)]
       IN  /\ IF SkipsExisting(files, crate_file, overwrite)
              THEN /\ crates_skipped' = crates_skipped + 1
                   /\ log' = Append(log, entry("skipped"))
                   /\ UNCHANGED <<subcrates, crates_created>>
              ELSE \E attempt \in {"lib", "bin", "failed"} :
                   /\ log' = Append(log, entry(attempt))
                   /\ UNCHANGED crates_skipped
                   /\ IF attempt = "failed"
                      THEN /\ \E left \in {files, (crate_file :> Partial) @@ files} :
                                 subcrates' = <<left>>
                           /\ UNCHANGED crates_created
                      ELSE /\ subcrates' =
                                 << (crate_file :> Written(attempt, crate_plan)) @@ files >>
                           /\ crates_created' = crates_created + 1
           /\ stack' = PendingAfter(log'[Len(log')].attempt, crate_plan, crate_filename,
                                    Tail(stack))
    /\ UNCHANGED <<env, sql, backups, pc, plan, backup_path, deleted, overwrite, outcome,
                   before>>

\* cli.py:616: the writer returns once every call has returned
WriteReturn ==
    /\ pc = "write_crate"
    /\ stack = <<>>
    /\ pc' = "report"
    /\ UNCHANGED <<env, sql, disk, plan, backup_path, deleted, overwrite, stack, crates_created,
                   crates_skipped, outcome, log, before>>

\* execute_sync, cli.py:868-877: print the counts and return True
Report ==
    /\ pc = "report"
    /\ pc' = "exit"
    /\ outcome' = "success"
    /\ UNCHANGED <<env, sql, disk, plan, backup_path, deleted, overwrite, stack, crates_created,
                   crates_skipped, log, before>>


Next ==
    \/ MainPlan
    \/ MainDryRun
    \/ MainApply
    \/ backup_subcrates
    \/ EnsureSubcrates
    \/ clean_existing_crates
    \/ write_crates_with_serato_crate
    \/ write_crate_recursive
    \/ WriteReturn
    \/ Report

\* One run of `serato-crates sync`.
Spec == Init /\ [][Next]_vars

\* A dry run over a generated music folder: main before create_sync_plan.
PlanInit ==
    /\ music \in GeneratedFolders
    /\ args \in [apply : {FALSE}, overwrite : {FALSE}, clean : {FALSE},
                 include_empty : BOOLEAN]
    /\ library = TRUE
    /\ clock = 1
    /\ subcrates \in InitialSubcrates
    /\ backups = NoBackups
    /\ RunInit
    /\ db = <<>>
    /\ txn = <<>>
    /\ foreign_keys = FALSE
    /\ revision = 0
    /\ next_order = 0
    /\ runs = 0
    /\ prev = <<>>
    /\ before = [subcrates |-> subcrates, backups |-> backups, db |-> db]

PlanNext ==
    \/ MainPlan
    \/ MainDryRun

\* `serato-crates sync` without --apply, over every generated music folder.
PlanSpec == PlanInit /\ [][PlanNext]_vars

(***************************************************************************)
(* Functions called on their own                                           *)
(***************************************************************************)

\* the state of everything a function called on its own does not touch
Idle ==
    /\ music = MusicEmpty
    /\ args = [apply |-> FALSE, overwrite |-> FALSE, clean |-> FALSE,
               include_empty |-> FALSE]
    /\ library = TRUE
    /\ clock = 1
    /\ subcrates = <<>>
    /\ backups = NoBackups
    /\ pc = "main"
    /\ plan = <<>>
    /\ backup_path = <<>>
    /\ deleted = 0
    /\ overwrite = FALSE
    /\ stack = <<>>
    /\ crates_created = 0
    /\ crates_skipped = 0
    /\ outcome = "running"
    /\ log = <<>>
    /\ db = <<>>
    /\ txn = <<>>
    /\ foreign_keys = FALSE
    /\ revision = 0
    /\ next_order = 0
    /\ runs = 0
    /\ prev = <<>>
    /\ before = [subcrates |-> subcrates, backups |-> backups, db |-> db]

\* The longest file name given to sanitize_crate_filename, in characters.
MaxLen == 4

\* The largest max_bytes given to sanitize_crate_filename.
MaxBudget == 6

\* characters of the file names given: a letter, a space, a character that is
\* replaced, one that is removed, and a letter with the accent that
\* normalization joins to it
NameChars == {"a", " ", "/", "ZWSP", "e", "COMB_ACUTE"}

\* the strings of at most n characters
Strings(chars, n) == UNION {[1..k -> chars] : k \in 0..n}

SanitizeInit ==
    /\ Idle
    /\ given \in [filename : Strings(NameChars, MaxLen), max_bytes : 0..MaxBudget]
    /\ returned = <<>>

\* sanitize_crate_filename(filename, max_bytes)
Sanitize ==
    /\ returned = <<>>
    /\ returned' = << sanitize_crate_filename(given.filename, given.max_bytes) >>
    /\ UNCHANGED <<music, args, library, clock, given, disk, run, sql>>

\* sanitize_crate_filename(name, max_bytes) on the name that the first call
\* returned
SanitizeAgain ==
    /\ Len(returned) = 1
    /\ returned' = Append(returned,
                          sanitize_crate_filename(returned[1], given.max_bytes))
    /\ UNCHANGED <<music, args, library, clock, given, disk, run, sql>>

SanitizeNext ==
    \/ Sanitize
    \/ SanitizeAgain

\* Calls of sanitize_crate_filename on every short file name and small budget.
SanitizeSpec == SanitizeInit /\ [][SanitizeNext]_vars

(***************************************************************************)
(* resolve_track_path                                                      *)
(***************************************************************************)

\* A pathlib path: its anchor (root, or drive and root) and its components.
\* A component is one token; a separator is a token of its own.
Path(anchor, parts) == [anchor |-> anchor, parts |-> parts]

PosixRoot  == <<"/">>
\* POSIX keeps exactly two leading slashes of a path apart from one
PosixRoot2 == <<"/", "/">>
DriveRoot  == <<"C:", "\\">>
UncRoot    == <<"\\", "\\", "srv", "\\", "share", "\\">>

\* os.sep of the platform whose paths have the anchor
Sep(anchor) == IF anchor \in {PosixRoot, PosixRoot2} THEN "/" ELSE "\\"

RECURSIVE Join(_, _)
\* sep.join(parts)
Join(sep, parts) ==
    IF parts = <<>> THEN <<>>
    ELSE IF Len(parts) = 1 THEN <<parts[1]>>
    ELSE <<parts[1], sep>> \o Join(sep, Tail(parts))

\* str(path)
Str(path) == path.anchor \o Join(Sep(path.anchor), path.parts)

\* path.parts: the anchor is the first part of an absolute path
Parts(path) == <<path.anchor>> \o [i \in 1..Len(path.parts) |-> <<path.parts[i]>>]

\* path.resolve(): the target of a symbolic link, if the path is one, made
\* absolute and normal; os.path.realpath starts a POSIX path from one '/'
\* however many the path began with.  links: <<>>, or <<the target>>.
Resolve(path, links) ==
    LET target == IF links = <<>> THEN path ELSE links[1]
    IN  IF target.anchor = PosixRoot2 THEN Path(PosixRoot, target.parts) ELSE target

\* track.relative_to(music_root): <<>> for ValueError, else <<the rest>>;
\* the comparison is of the paths as written, links not followed
RelativeTo(track, music_root) ==
    IF /\ track.anchor = music_root.anchor
       /\ Len(track.parts) >= Len(music_root.parts)
       /\ SubSeq(track.parts, 1, Len(music_root.parts)) = music_root.parts
    THEN << SubSeq(track.parts, Len(music_root.parts) + 1, Len(track.parts)) >>
    ELSE <<>>

\* resolved[1:]
LStripSlash_DropsFirst(str) == Tail(str)

RECURSIVE LStripSlash(_)
\* str.lstrip("/")
LStripSlash(str) ==
    IF str # <<>> /\ Head(str) = "/" THEN LStripSlash(Tail(str)) ELSE str

\* def resolve_track_path(track), cli.py:535-560, with the path_mode and the
\* plan.music_root of the enclosing call; links is what track.resolve() finds
resolve_track_path(track, links, path_mode, music_root) ==
    LET resolved == Resolve(track, links)
    IN  CASE path_mode = "relative-to-music-root" ->
               IF RelativeTo(track, music_root) # <<>>
               THEN IF RelativeTo(track, music_root)[1] = <<>> THEN <<".">>
                    ELSE Join(Sep(track.anchor), RelativeTo(track, music_root)[1])
               ELSE LStripSlash(Str(resolved))
          [] path_mode = "relative-to-volume-root" ->
               IF Len(Parts(resolved)) > 2 /\ Parts(resolved)[2] = <<"Volumes">>
               THEN Join("/", SubSeq(resolved.parts, 3, Len(resolved.parts)))
               ELSE LStripSlash(Str(resolved))
          [] OTHER -> LStripSlash(Str(resolved))

\* --path-mode
PathModes == {"absolute", "relative-to-music-root", "relative-to-volume-root"}

\* paths of tracks and music roots: on a POSIX root, written with one slash or
\* two, on a drive and on a network share; in the root, in a folder, on a
\* mounted volume
GivenPaths ==
    { Path(anchor, parts) :
        anchor \in {PosixRoot, PosixRoot2, DriveRoot, UncRoot},
        parts \in { <<>>, <<"t.mp3">>, <<"m", "t.mp3">>, <<"Volumes", "v">>,
                    <<"Volumes", "v", "m", "t.mp3">> } }

\* what track.resolve() may find: no link, or a link to a path of the platform
GivenLinks(track) ==
    {<<>>} \cup { <<target>> : target \in { q \in GivenPaths :
                                              /\ Sep(q.anchor) = Sep(track.anchor)
                                              /\ q.anchor # PosixRoot2 } }

ResolveInit ==
    /\ Idle
    /\ \E track \in GivenPaths, path_mode \in PathModes :
          \E links \in GivenLinks(track),
             music_root \in { q \in GivenPaths : /\ Sep(q.anchor) = Sep(track.anchor)
                                                  /\ q.anchor # PosixRoot2
                                                  /\ Len(q.parts) \in {1, 2} } :
             given = [track |-> track, links |-> links, path_mode |-> path_mode,
                      music_root |-> music_root]
    /\ returned = <<>>

\* one call of resolve_track_path
ResolveTrackPath ==
    /\ returned = <<>>
    /\ returned' = << resolve_track_path(given.track, given.links, given.path_mode,
                                         given.music_root) >>
    /\ UNCHANGED <<music, args, library, clock, given, disk, run, sql>>

ResolveNext == ResolveTrackPath

\* Calls of resolve_track_path on the given paths, in every path mode.
ResolveSpec == ResolveInit /\ [][ResolveNext]_vars

(***************************************************************************)
(* write_crate_binary                                                      *)
(***************************************************************************)

\* the code points of the characters of a token of a path
Spell(token) ==
    CASE token = "/"       -> <<47>>
      [] token = "\\"      -> <<92>>
      [] token = "."       -> <<46>>
      [] token = "C:"      -> <<67, 58>>
      [] token = "srv"     -> <<115, 114, 118>>
      [] token = "share"   -> <<115, 104, 97, 114, 101>>
      [] token = "Volumes" -> <<86, 111, 108, 117, 109, 101, 115>>
      [] token = "v"       -> <<118>>
      [] token = "m"       -> <<109>>
      [] token = "t.mp3"   -> <<116, 46, 109, 112, 51>>
      [] token = "E_ACUTE" -> <<233>>
      [] token = "CLEF"    -> <<119070>>

RECURSIVE Concat(_)
\* the parts of a sequence of sequences, one after the other
Concat(parts) == IF parts = <<>> THEN <<>> ELSE Head(parts) \o Concat(Tail(parts))

\* a string of tokens as the sequence of its code points
CodePoints(str) == Concat([i \in 1..Len(str) |-> Spell(str[i])])

\* "1.0/Serato ScratchLive Crate"
VersionString ==
    <<49, 46, 48, 47, 83, 101, 114, 97, 116, 111, 32, 83, 99, 114, 97, 116, 99, 104,
      76, 105, 118, 101, 32, 67, 114, 97, 116, 101>>

\* the UTF-16 code units of a code point: itself, or a surrogate pair
Utf16Units(cp) ==
    IF cp < 65536 THEN <<cp>>
    ELSE <<55296 + ((cp - 65536) \div 1024), 56320 + ((cp - 65536) % 1024)>>

\* encode_string(s): s.encode('utf-16-be'), on the code points of s
encode_string(cps) ==
    LET units == Concat([i \in 1..Len(cps) |-> Utf16Units(cps[i])])
    IN  Concat([i \in 1..Len(units) |-> <<units[i] \div 256, units[i] % 256>>])

\* struct.pack('<I', length)
PackU32_LittleEndian(n) ==
    <<n % 256, (n \div 256) % 256, (n \div 65536) % 256, (n \div 16777216) % 256>>

\* struct.pack('>I', length)
PackU32(n) ==
    <<(n \div 16777216) % 256, (n \div 65536) % 256, (n \div 256) % 256, n % 256>>

\* tag names, as tag_name.encode('ascii') gives them
TagVrsn == <<118, 114, 115, 110>>
TagOtrk == <<111, 116, 114, 107>>
TagPtrk == <<112, 116, 114, 107>>

\* make_tag(tag_name, data)
make_tag(tag_bytes, data) == tag_bytes \o PackU32(Len(data)) \o data

\* def write_crate_binary(crate_file, crate_plan, resolve_path): the bytes
\* written to crate_file for the tracks of crate_plan; the callable
\* resolve_path is a function on the tracks
write_crate_binary(tracks, resolve_path) ==
    LET version_data == encode_string(VersionString)
        otrk_tag(track) ==
            make_tag(TagOtrk, make_tag(TagPtrk, encode_string(CodePoints(resolve_path[track]))))
    IN  make_tag(TagVrsn, version_data)
        \o Concat([i \in 1..Len(tracks) |-> otrk_tag(tracks[i])])

\* The most tracks of a crate given to write_crate_binary.
MaxTracks == 2

\* tracks of the crates given: plain, with a letter outside ASCII, with a
\* character outside the basic plane, on a volume, on a drive
GivenTracks ==
    { Path(PosixRoot, <<"m", "t.mp3">>), Path(PosixRoot, <<"m", "E_ACUTE">>),
      Path(PosixRoot, <<"CLEF">>), Path(PosixRoot, <<"Volumes", "v", "t.mp3">>),
      Path(DriveRoot, <<"m", "t.mp3">>) }

BinaryInit ==
    /\ Idle
    /\ given \in [tracks : UNION {[1..n -> GivenTracks] : n \in 0..MaxTracks},
                  path_mode : PathModes,
                  music_root : {Path(PosixRoot, <<"m">>)}]
    /\ returned = <<>>

\* one call of write_crate_binary with resolve_track_path, as
\* write_crate_recursive makes it (cli.py:603)
WriteCrateBinary ==
    /\ returned = <<>>
    /\ LET resolve_path ==
               [track \in GivenTracks |->
                   resolve_track_path(track, <<>>, given.path_mode, given.music_root)]
       IN  returned' = << write_crate_binary(given.tracks, resolve_path) >>
    /\ UNCHANGED <<music, args, library, clock, given, disk, run, sql>>

BinaryNext == WriteCrateBinary

\* Calls of write_crate_binary on crates of at most MaxTracks tracks.
BinarySpec == BinaryInit /\ [][BinaryNext]_vars

(***************************************************************************)
(* write_crates_to_sqlite and clear_crates_from_sqlite                     *)
(***************************************************************************)

\* Calls of the two database functions, or runs of the command, in one
\* behaviour.
MaxRuns == 2

\* Before the first call of a database function.  Nothing calls the two
\* functions inside the package, so each call gets any plan and comes at any
\* later time.
SqliteInit ==
    /\ music = MusicEmpty
    /\ args = [apply |-> FALSE, overwrite |-> FALSE, clean |-> FALSE,
               include_empty |-> FALSE]
    /\ library = FALSE
    /\ clock \in 1..MaxClock
    /\ subcrates = <<>>
    /\ backups = NoBackups
    /\ RunInit
    /\ db \in InitialDatabases
    /\ txn = <<>>
    /\ foreign_keys \in BOOLEAN
    /\ revision = 0
    /\ next_order = 0
    /\ runs = 0
    /\ prev = <<>>
    /\ before = [subcrates |-> subcrates, backups |-> backups, db |-> db]

\* what is remembered of a call when the next one starts
Ended == [plan |-> plan, outcome |-> outcome, crates_created |-> crates_created,
          crates_skipped |-> crates_skipped, db |-> db]

\* cli.py:805-807: for crate_plan in plan.crates:
\* create_crate_recursive(crate_plan, 0, "", next_order); next_order += 1
TopCalls(crates, first_order) ==
    [i \in 1..Len(crates) |->
        [crate_plan |-> crates[i], parent_id |-> 0, parent_prefix |-> <<>>,
         list_order |-> first_order + i - 1]]

\* a loop over the children that creates each of them under the root container
ChildCalls_UnderRoot(children, crate_id, display_name) ==
    [i \in 1..Len(children) |->
        [crate_plan |-> children[i], parent_id |-> 0,
         parent_prefix |-> display_name, list_order |-> i]]

\* cli.py:797-800: child_order = 1; for child in crate_plan.children:
\* create_crate_recursive(child, crate_id, display_name, child_order); child_order += 1
ChildCalls(children, crate_id, display_name) ==
    [i \in 1..Len(children) |->
        [crate_plan |-> children[i], parent_id |-> crate_id,
         parent_prefix |-> display_name, list_order |-> i]]

\* def write_crates_to_sqlite(plan, subcrate_delimiter), cli.py:729-753, up to
\* the first call of create_crate_recursive.  Without the database file it
\* returns (0, 0).
write_crates_to_sqlite ==
    /\ pc = "main"
    /\ runs < MaxRuns
    /\ \E fs \in MusicFolders, include_empty \in BOOLEAN, now \in clock..MaxClock :
          /\ plan' = << create_sync_plan(fs, 1, subcrates, DEFAULT_AUDIO_EXTENSIONS,
                                         include_empty) >>
          /\ clock' = now
    /\ runs' = runs + 1
    /\ prev' = IF runs = 0 THEN <<>> ELSE <<Ended>>
    /\ before' = [before EXCEPT !.db = db]
    /\ crates_created' = 0
    /\ crates_skipped' = 0
    /\ log' = <<>>
    /\ IF db = <<>>
       THEN /\ outcome' = "missing"
            /\ stack' = <<>>
            /\ UNCHANGED <<pc, txn, revision, next_order>>
       ELSE /\ outcome' = "running"
            /\ txn' = db
            /\ revision' = SelectRevision(db[1])
            /\ next_order' = SelectNextOrder(db[1])
            /\ stack' = TopCalls(plan'[1].crates, next_order')
            /\ pc' = "create_crate"
    /\ UNCHANGED <<music, args, library, fn, disk, db, foreign_keys, backup_path, deleted,
                   overwrite>>

\* cli.py:765-768: the display name of a node
DisplayName(crate_plan, parent_prefix, subcrate_delimiter) ==
    IF parent_prefix # <<>>
    THEN parent_prefix \o subcrate_delimiter \o crate_plan.name
    ELSE crate_plan.name

\* def create_crate_recursive(crate_plan, parent_id, parent_prefix, list_order),
\* one call, up to its loop over the children, whose calls are put before the
\* pending ones
create_crate_recursive ==
    /\ pc = "create_crate"
    /\ stack # <<>>
    /\ LET call == Head(stack)
           crate_plan == call.crate_plan
           display_name == DisplayName(crate_plan, call.parent_prefix, SubcrateDelimiter)
           existing == SelectExisting(txn[1], call.parent_id, crate_plan.name)
           crate_id == IF existing # <<>> THEN existing[1] ELSE LastRowId(txn[1])
       IN  /\ IF existing # <<>>
              THEN /\ crates_skipped' = crates_skipped + 1
                   /\ UNCHANGED <<txn, revision, crates_created>>
              ELSE /\ revision' = revision + 1
                   /\ txn' = << InsertCrate(txn[1], revision', call.parent_id,
                                            crate_plan.name, call.list_order, clock,
                                            display_name) >>
                   /\ crates_created' = crates_created + 1
                   /\ UNCHANGED crates_skipped
           /\ log' = Append(log, [path |-> crate_plan.path, existed |-> existing # <<>>,
                                  crate_id |-> crate_id, parent_id |-> call.parent_id,
                                  list_order |-> call.list_order])
           /\ stack' = ChildCalls(crate_plan.children, crate_id, display_name)
                          \o Tail(stack)
    /\ UNCHANGED <<env, disk, db, foreign_keys, next_order, runs, prev, pc, plan,
                   backup_path, deleted, overwrite, outcome, before>>

\* cli.py:809-821: UPDATE serato SET revision = ?, conn.commit(), conn.close(),
\* and the counts are returned
SqliteCommit ==
    /\ pc = "create_crate"
    /\ stack = <<>>
    /\ db' = << UpdateRevision(txn[1], revision) >>
    /\ txn' = <<>>
    /\ outcome' = "committed"
    /\ pc' = "main"
    /\ UNCHANGED <<env, disk, foreign_keys, revision, next_order, runs, prev, plan,
                   backup_path, deleted, overwrite, stack, crates_created,
                   crates_skipped, log, before>>

\* an except branch that commits what the connection had written
SqliteRaise_Commits ==
    /\ pc = "create_crate"
    /\ db' = txn
    /\ txn' = <<>>
    /\ stack' = <<>>
    /\ crates_created' = 0
    /\ crates_skipped' = 0
    /\ outcome' = "failed"
    /\ pc' = "main"
    /\ UNCHANGED <<env, disk, foreign_keys, revision, next_order, runs, prev, plan,
                   backup_path, deleted, overwrite, log, before>>

\* what `except Exception` returns, cli.py:817-819
RaisedCounts == <<0, 0>>

\* cli.py:817-819: any statement between connect and commit raises; (0, 0) is
\* returned, and the connection, which was never committed, is dropped with
\* what it had written
SqliteRaise ==
    /\ pc = "create_crate"
    /\ txn' = <<>>
    /\ stack' = <<>>
    /\ crates_created' = RaisedCounts[1]
    /\ crates_skipped' = RaisedCounts[2]
    /\ outcome' = "failed"
    /\ pc' = "main"
    /\ UNCHANGED <<env, disk, db, foreign_keys, revision, next_order, runs, prev, plan,
                   backup_path, deleted, overwrite, log, before>>

\* def clear_crates_from_sqlite(): without the file it returns 0; else it
\* deletes the top-level crates, adds one to the revision and commits, or
\* some statement raises and it returns 0 with nothing committed
clear_crates_from_sqlite ==
    /\ pc = "main"
    /\ runs < MaxRuns
    /\ runs' = runs + 1
    /\ prev' = IF runs = 0 THEN <<>> ELSE <<Ended>>
    /\ before' = [before EXCEPT !.db = db]
    /\ plan' = <<>>
    /\ log' = <<>>
    /\ crates_created' = 0
    /\ crates_skipped' = 0
    /\ \/ /\ db = <<>>
          /\ outcome' = "clear_missing"
          /\ deleted' = 0
          /\ UNCHANGED db
       \/ /\ db # <<>>
          /\ db' = << UpdateRevision(
                         Tables(DeleteTopLevelCrates(db[1].container, foreign_keys),
                                db[1].serato),
                         SelectRevision(db[1]) + 1) >>
          /\ deleted' = Cardinality({r \in db[1].container :
                                         r.type = 1 /\ r.parent_id = 0})
          /\ outcome' = "cleared"
       \/ /\ db # <<>>
          /\ outcome' = "clear_failed"
          /\ deleted' = 0
          /\ UNCHANGED db
    /\ UNCHANGED <<env, disk, txn, foreign_keys, revision, next_order, pc, backup_path,
                   overwrite, stack>>

SqliteNext ==
    \/ write_crates_to_sqlite
    \/ create_crate_recursive
    \/ SqliteCommit
    \/ SqliteRaise
    \/ clear_crates_from_sqlite

\* Calls of the database functions, one after the other.
SqliteSpec == SqliteInit /\ [][SqliteNext]_vars

(***************************************************************************)
(* Runs of the command, one after the other, on the same folders           *)
(***************************************************************************)

\* The first of several runs of `serato-crates sync`: no backup folder has
\* been made yet.
RerunInit ==
    /\ music \in {MusicScenario, MusicEmpty}
    /\ args \in [apply : BOOLEAN, overwrite : BOOLEAN, clean : BOOLEAN,
                 include_empty : {FALSE}]
    /\ library = TRUE
    /\ clock \in 1..MaxClock
    /\ subcrates \in InitialSubcrates
    /\ backups = NoBackups
    /\ RunInit
    /\ db = << Tables(LibraryRows, << [revision |-> 4] >>) >>
    /\ txn = <<>>
    /\ foreign_keys = FALSE
    /\ revision = 0
    /\ next_order = 0
    /\ runs = 1
    /\ prev = <<>>
    /\ before = [subcrates |-> subcrates, backups |-> backups, db |-> db]

\* cli.py:1184, sys.exit(main()): the process has ended, and the command is
\* started again, with any arguments, in the same second or later, on the
\* folders as the run before left them
NextRun ==
    /\ pc = "exit"
    /\ runs < MaxRuns
    /\ runs' = runs + 1
    /\ \E again \in [apply : BOOLEAN, overwrite : BOOLEAN, clean : BOOLEAN,
                     include_empty : {FALSE}], now \in clock..MaxClock :
          /\ args' = again
          /\ clock' = now
    /\ pc' = "main"
    /\ plan' = <<>>
    /\ backup_path' = <<>>
    /\ deleted' = 0
    /\ overwrite' = FALSE
    /\ stack' = <<>>
    /\ crates_created' = 0
    /\ crates_skipped' = 0
    /\ outcome' = "running"
    /\ log' = <<>>
    /\ before' = [subcrates |-> subcrates, backups |-> backups, db |-> db]
    /\ prev' = <<Ended>>
    /\ UNCHANGED <<music, library, fn, disk, db, txn, foreign_keys, revision, next_order>>

RerunNext ==
    \/ Next
    \/ NextRun

\* Runs of `serato-crates sync`, each a process of its own.
RerunSpec == RerunInit /\ [][RerunNext]_vars

(***************************************************************************)
(* Properties of execute_sync and main                                    *)
(***************************************************************************)

\* the plan nodes for which a write was attempted
Attempted == {i \in DOMAIN log : log[i].attempt # "skipped"}

\* a crate file was deleted, created or overwritten, or a write of one was tried
Mutated == subcrates # before.subcrates \/ Attempted # {}

\* this run made a backup folder that holds the Subcrates folder as it was found
BackedUp ==
    /\ before.subcrates # <<>>
    /\ backup_path # <<>>
    /\ backup_path[1] \notin DOMAIN before.backups
    /\ backup_path[1] \in DOMAIN backups
    /\ backups[backup_path[1]] = before.subcrates[1]

\* the entries of a folder that are crate files
CratesIn(files) == {f \in DOMAIN files : IsCrateFile(f)}

\* the crate files the run found
FoundCrates == IF before.subcrates = <<>> THEN {} ELSE CratesIn(before.subcrates[1])

\* the crate files the run found that are still there as they were
RemainingCrates ==
    IF subcrates = <<>> THEN {}
    ELSE {f \in FoundCrates : f \in DOMAIN subcrates[1]
                              /\ subcrates[1][f] = before.subcrates[1][f]}

\* C1: when the Subcrates folder exists, the backup copy is complete before
\* any crate file is deleted, created or overwritten, and a run that returns
\* has made the backup, also when the write step created no crate at all.
C1_BackupBeforeAnyWrite ==
    before.subcrates # <<>> =>
        /\ Mutated => BackedUp
        /\ outcome = "success" => BackedUp

\* C1 witness: a run that cleaned the crates it found, wrote none, and returned
C1_Witness ==
    /\ outcome = "success"
    /\ BackedUp
    /\ crates_created = 0
    /\ FoundCrates # {}
    /\ subcrates # before.subcrates

\* the backup step was reached with a Subcrates folder and left no backup_path
BackupFailed ==
    /\ args.apply
    /\ before.subcrates # <<>>
    /\ pc \notin {"main", "planned", "backup"}
    /\ backup_path = <<>>

\* C2: when the backup copy fails, the run ends as failed and nothing
\* destructive follows: no crate file is deleted, created or overwritten.
C2_BackupFailureStopsTheSync ==
    BackupFailed =>
        /\ outcome = "raised"
        /\ pc = "exit"
        /\ subcrates = before.subcrates
        /\ log = <<>>
        /\ ~ENABLED Next

\* C2 witness: a clean-and-sync whose backup copy broke off half way
C2_Witness ==
    /\ BackupFailed
    /\ args.clean
    /\ FoundCrates # {}
    /\ backups # before.backups

\* C3 as stated: with clean set and crates found, the run makes exactly one
\* backup folder, equal to what it found, and after the clean step none of
\* the crates it found remains.
C3_AsStated ==
    (args.apply /\ args.clean /\ FoundCrates # {} /\ pc = "write") =>
        /\ BackedUp
        /\ DOMAIN backups = DOMAIN before.backups \cup {backup_path[1]}
        /\ RemainingCrates = {}

\* C3 amended: with clean set and crates found, either the backup copy fails
\* and Subcrates is left as found, or exactly one backup folder is made, equal
\* to what was found; after the clean step the crates still there are those
\* whose unlink raised, as many as were found less the deleted count, and
\* every entry that is no crate file is as it was.
C3_BackupThenClean ==
    (args.apply /\ args.clean /\ FoundCrates # {}) =>
        /\ pc \in {"clean", "write", "write_crate", "report"} \/ outcome = "success" =>
              /\ BackedUp
              /\ DOMAIN backups = DOMAIN before.backups \cup {backup_path[1]}
              /\ \A t \in DOMAIN before.backups : backups[t] = before.backups[t]
        /\ outcome = "raised" => subcrates = before.subcrates
        /\ pc = "write" =>
              /\ Cardinality(RemainingCrates) = Cardinality(FoundCrates) - deleted
              /\ CratesIn(subcrates[1]) = RemainingCrates
              /\ \A f \in DOMAIN before.subcrates[1] \ FoundCrates :
                    f \in DOMAIN subcrates[1] /\ subcrates[1][f] = before.subcrates[1][f]
              /\ deleted = Cardinality(FoundCrates) => CratesIn(subcrates[1]) = {}

\* C3 witness: the clean step has deleted every crate that was found
C3_Witness ==
    /\ args.clean
    /\ pc = "write"
    /\ BackedUp
    /\ FoundCrates # {}
    /\ deleted = Cardinality(FoundCrates)
    /\ subcrates[1] # NoFiles
    /\ before.backups # NoBackups

\* C4: with clean set the write step overwrites whatever the caller's
\* overwrite flag is: no node is ever counted as skipped.
C4_CleanForcesOverwrite ==
    args.clean => /\ crates_skipped = 0
                  /\ pc \in {"write_crate", "report"} => overwrite

\* C4 witness: clean without --overwrite, and a crate written over a file
\* that was there when its node was processed
C4_Witness ==
    /\ args.clean
    /\ ~args.overwrite
    /\ outcome = "success"
    /\ \E i \in DOMAIN log : log[i].existed /\ log[i].attempt = "lib"

\* C5: a dry run (no --apply) changes neither the files under the Serato
\* root nor the rows of the relational store.
C5_DryRunChangesNothing ==
    ~args.apply =>
        /\ subcrates = before.subcrates
        /\ backups = before.backups
        /\ db = before.db
        /\ txn = <<>>

\* C5 witness: a dry run that planned crates over a Subcrates folder and ended
C5_Witness ==
    /\ outcome = "dry_run"
    /\ plan[1].total_crates > 1
    /\ FoundCrates # {}

\* the crate file the next call of write_crate_recursive is about
NextCrateFile ==
    CrateFileName(CrateFilename(Head(stack).crate_plan, Head(stack).parent_prefix,
                                SubcrateDelimiter))

\* C9: with overwrite disabled a node is counted as skipped exactly when its
\* crate file exists at the moment the node is processed, and then the file
\* (all of Subcrates) is left as it is; with overwrite enabled none is skipped.
C9_SkippedIffExists ==
    [][ (pc = "write_crate" /\ stack # <<>>) =>
            IF ~overwrite /\ NextCrateFile \in DOMAIN subcrates[1]
            THEN /\ crates_skipped' = crates_skipped + 1
                 /\ crates_created' = crates_created
                 /\ subcrates' = subcrates
            ELSE crates_skipped' = crates_skipped ]_vars

\* C9 witness: one node skipped, its file as it was found, and one node written
C9_Witness ==
    /\ ~overwrite
    /\ pc = "report"
    /\ crates_created > 0
    /\ \E i \in DOMAIN log :
          /\ log[i].attempt = "skipped"
          /\ subcrates[1][log[i].file] = before.subcrates[1][log[i].file]

RECURSIVE PlanPaths(_)
\* the folders of the nodes of a list of crates, in the order of the traversal
PlanPaths(crates) ==
    IF crates = <<>> THEN <<>>
    ELSE <<Head(crates).path>> \o PlanPaths(Head(crates).children)
         \o PlanPaths(Tail(crates))

\* C10: a failed write is isolated to its node: when the writer returns,
\* every node of the plan has been processed, once and in order, and a node
\* whose two writes failed is in neither count.
C10_FailureIsIsolated ==
    (pc = "report" /\ library) =>
        /\ [i \in DOMAIN log |-> log[i].path] = PlanPaths(plan[1].crates)
        /\ crates_created = Cardinality({i \in DOMAIN log : log[i].attempt \in {"lib", "bin"}})
        /\ crates_skipped = Cardinality({i \in DOMAIN log : log[i].attempt = "skipped"})
        /\ crates_created + crates_skipped
              = Len(log) - Cardinality({i \in DOMAIN log : log[i].attempt = "failed"})

\* C10 witness: the root's writes both failed, its child and grandchild were written
C10_Witness ==
    /\ pc = "report"
    /\ Len(log) = 3
    /\ log[1].attempt = "failed"
    /\ log[2].attempt = "lib"
    /\ log[3].attempt = "bin"
    /\ crates_created = 2

(***************************************************************************)
(* Properties of write_crates_to_sqlite and clear_crates_from_sqlite       *)
(***************************************************************************)

\* the rows of a table under one parent
RowsUnder(tables, parent_id) == {r \in tables.container : r.parent_id = parent_id}

\* every id a row of one of two tables has or names as its parent
ParentIds(t1, t2) ==
    {0} \cup {r.id : r \in t1.container \cup t2.container}
        \cup {r.parent_id : r \in t1.container \cup t2.container}

\* the writer has just committed a run with the plan of the committed run
\* that came right before it
SecondRunOfSamePlan ==
    /\ pc = "main"
    /\ outcome = "committed"
    /\ prev # <<>>
    /\ prev[1].outcome = "committed"
    /\ prev[1].plan = plan

\* C6: the second of two successive runs of the writer with the same plan
\* creates no row, counts every plan node as skipped, and leaves under every
\* parent as many rows as the first run left.
C6_SecondRunSkipsAll ==
    SecondRunOfSamePlan =>
        /\ crates_created = 0
        /\ crates_skipped = plan[1].total_crates
        /\ \A i \in DOMAIN log : log[i].existed
        /\ \A p \in ParentIds(db[1], before.db[1]) :
              Cardinality(RowsUnder(db[1], p)) = Cardinality(RowsUnder(before.db[1], p))

\* C6 witness: the first run inserted the rows of a four-node plan, the
\* second run found them all
C6_Witness ==
    /\ SecondRunOfSamePlan
    /\ prev[1].crates_created = 4
    /\ crates_skipped = 4

\* the rows the current run has inserted, by the ids it was given for them
InsertedIds == {log[i].crate_id : i \in {j \in DOMAIN log : ~log[j].existed}}

\* C7: one run of the writer is all or nothing: nothing is committed while
\* it runs; when it ends well, every row it inserted and the revision are in
\* the database together; when any step raised, the database is as it was
\* found and the counts returned are (0, 0).
C7_AllOrNothing ==
    /\ pc = "create_crate" => db = before.db
    /\ outcome = "failed" =>
          /\ db = before.db
          /\ txn = <<>>
          /\ crates_created = 0
          /\ crates_skipped = 0
    /\ outcome = "committed" =>
          /\ before.db[1].container \subseteq db[1].container
          /\ {r.id : r \in db[1].container \ before.db[1].container} = InsertedIds
          /\ Cardinality(InsertedIds) = crates_created
          /\ \A i \in DOMAIN db[1].serato : db[1].serato[i].revision = revision

\* C7 witness: a run that had inserted two rows when a statement raised
C7_Witness ==
    /\ outcome = "failed"
    /\ Cardinality(InsertedIds) = 2
    /\ Len(log) = 3
    /\ db = before.db

RECURSIVE Descendants(_, _)
\* the rows of a table below the rows with the given ids
Descendants(container, ids) ==
    LET children == {r \in container : r.parent_id \in ids}
    IN  IF children = {} THEN {}
        ELSE children \cup Descendants(container \ children, {r.id : r \in children})

\* the top-level user crates of a table
TopLevelCrates(tables) == {r \in tables.container : r.type = 1 /\ r.parent_id = 0}

\* C8: after the purge no top-level user crate is left in container, and no
\* row that was below a deleted one is left either.
C8_PurgeRemovesDescendants ==
    (pc = "main" /\ outcome = "cleared") =>
        /\ TopLevelCrates(db[1]) = {}
        /\ db[1].container
             \cap Descendants(before.db[1].container,
                              {r.id : r \in TopLevelCrates(before.db[1])}) = {}

\* C8 witness: the purge deleted the one top-level crate of the library, and
\* the rows that were below it are still in container
C8_Witness ==
    /\ pc = "main"
    /\ outcome = "cleared"
    /\ deleted = 1
    /\ TopLevelCrates(db[1]) = {}
    /\ \E r \in db[1].container : r.parent_id \notin {0} \cup {q.id : q \in db[1].container}

(***************************************************************************)
(* Properties of the two writers of a crate file                           *)
(***************************************************************************)

RECURSIVE PlanNodes(_, _)
\* the nodes of a list of crates in the order of the traversal, each with the
\* folder it stands for and the crate file it is written to
PlanNodes(crates, parent_prefix) ==
    IF crates = <<>> THEN <<>>
    ELSE LET crate_filename == CrateFilename(Head(crates), parent_prefix, SubcrateDelimiter)
         IN  << [path |-> Head(crates).path, file |-> CrateFileName(crate_filename)] >>
             \o PlanNodes(Head(crates).children, crate_filename)
             \o PlanNodes(Tail(crates), parent_prefix)

\* the calls of write_crate_recursive made for the node of a folder
CallsFor(path) == {i \in DOMAIN log : log[i].path = path}

RECURSIVE FallbacksIn(_, _)
\* the calls of write_crate_binary that a log records for the node of a folder
FallbacksIn(entries, path) ==
    IF entries = <<>> THEN 0
    ELSE (IF Head(entries).path = path THEN Head(entries).fallbacks ELSE 0)
         + FallbacksIn(Tail(entries), path)

\* the calls of write_crate_binary made for the node of a folder
FallbacksFor(path) == FallbacksIn(log, path)

\* the library did not write the crate of a node that was due to be written:
\* its write raised, or the library could not be imported at all
PrimaryFailed(node) ==
    IF library
    THEN \E i \in CallsFor(node.path) : log[i].primary = "raised"
    ELSE ~SkipsExisting(subcrates[1], node.file, overwrite)

\* C11: when the writer has returned, write_crate_binary has been called
\* exactly once for every node whose library write failed, a missing library
\* included, and not at all for a node the library wrote.
C11_FallbackOncePerFailedNode ==
    pc = "report" =>
        \A k \in DOMAIN PlanNodes(plan[1].crates, <<>>) :
            LET node == PlanNodes(plan[1].crates, <<>>)[k]
            IN  /\ PrimaryFailed(node) => FallbacksFor(node.path) = 1
                /\ (\E i \in CallsFor(node.path) : log[i].primary = "ok")
                      => FallbacksFor(node.path) = 0

\* C11 witness: the library is missing, the plan has nodes to write, and the
\* writer has returned without a call for any of them
C11_Witness ==
    /\ pc = "report"
    /\ ~library
    /\ plan[1].total_crates > 1
    /\ log = <<>>
    /\ crates_created = 0

(***************************************************************************)
(* Properties of build_crate_tree and create_sync_plan                     *)
(***************************************************************************)

\* what enumerating a folder yields: nothing when the listing is denied
Listing(fs, folder) == IF fs[folder].denied THEN {} ELSE IterDir(fs, folder)

\* the subfolders of a folder that are not hidden
Subfolders(fs, folder) ==
    {p \in Listing(fs, folder) : fs[p].isdir /\ fs[p].name[1] # "."}

\* the files of a folder whose extension matches
MatchingFiles(fs, folder) ==
    {p \in Listing(fs, folder) :
        /\ ~fs[p].isdir
        /\ fs[p].name[Len(fs[p].name)] \in {".mp3", ".MP3", ".m4a", ".aiff", ".aif",
                                              ".wav", ".flac"}}

RECURSIVE ReachedFrom(_, _)
\* the folders build_crate_tree is called on, starting from one
ReachedFrom(fs, folder) ==
    {folder} \cup UNION {ReachedFrom(fs, sub) : sub \in Subfolders(fs, folder)}

RECURSIVE Yields(_, _, _)
\* a folder has a matching file, or a subfolder that yields a node, or
\* include_empty is set
Yields(fs, folder, include_empty) ==
    \/ include_empty
    \/ MatchingFiles(fs, folder) # {}
    \/ \E sub \in Subfolders(fs, folder) : Yields(fs, sub, include_empty)

RECURSIVE Nodes(_)
\* the nodes of a list of crates, as a set
Nodes(crates) ==
    IF crates = <<>> THEN {}
    ELSE {[name |-> Head(crates).name, path |-> Head(crates).path,
           tracks |-> Head(crates).tracks]}
         \cup Nodes(Head(crates).children) \cup Nodes(Tail(crates))

\* main has made its plan
Planned == plan # <<>>

\* C12: a folder reached by build_crate_tree has a node in the tree exactly
\* when it has a matching file, or a subfolder that yields a node, or
\* include_empty is set.
C12_NodeIffTracksOrChildren ==
    Planned =>
        {n.path : n \in Nodes(plan[1].crates)}
            = {f \in ReachedFrom(music, 1) : Yields(music, f, args.include_empty)}

\* C12 witness: without include_empty, a root with no file of its own is in
\* the tree for a subfolder's sake, and another folder reached is not
C12_Witness ==
    /\ Planned
    /\ ~args.include_empty
    /\ MatchingFiles(music, 1) = {}
    /\ 1 \in {n.path : n \in Nodes(plan[1].crates)}
    /\ \E f \in ReachedFrom(music, 1) : f \notin {n.path : n \in Nodes(plan[1].crates)}

RECURSIVE Ancestors(_, _)
\* a path and the folders it is in, up to the music root
Ancestors(fs, p) == IF fs[p].parent = 0 THEN {p} ELSE {p} \cup Ancestors(fs, fs[p].parent)

\* the tracks of all nodes of a plan
TracksOf(crates) ==
    UNION {{n.tracks[i] : i \in DOMAIN n.tracks} : n \in Nodes(crates)}

\* C13 as stated: no node has a name that starts with '.', and no track of a
\* node lies under a folder whose name starts with '.'.
C13_AsStated ==
    Planned =>
        /\ \A n \in Nodes(plan[1].crates) : n.name[1] # "."
        /\ \A t \in TracksOf(plan[1].crates) :
              \A a \in Ancestors(music, t) \ {t} : music[a].name[1] # "."

\* C13 amended: no node but the one of the music root has a name that starts
\* with '.', and no track of a node lies under a folder below the music root
\* whose name starts with '.'; the root is taken whatever its name.
C13_HiddenBelowRoot ==
    Planned =>
        /\ \A n \in Nodes(plan[1].crates) : n.path # 1 => n.name[1] # "."
        /\ \A t \in TracksOf(plan[1].crates) :
              \A a \in Ancestors(music, t) \ {t, 1} : music[a].name[1] # "."

\* C13 witness: include_empty is set, a hidden folder below the root holds an
\* audio file, and the plan has neither
C13_Witness ==
    /\ Planned
    /\ args.include_empty
    /\ \E h \in DOMAIN music :
          /\ h # 1
          /\ music[h].isdir
          /\ music[h].name[1] = "."
          /\ \E t \in DOMAIN music : music[t].parent = h /\ ~music[t].isdir
                                     /\ music[t].name[Len(music[t].name)] = ".mp3"
    /\ plan[1].total_crates >= 2

\* C14: total_crates is the number of nodes of the plan's tree, one for each
\* folder that is included and none for any other, and total_tracks is the
\* sum of the lengths of their track lists.
C14_TotalsCountTheTree ==
    Planned =>
        /\ plan[1].total_crates = Cardinality({n.path : n \in Nodes(plan[1].crates)})
        /\ plan[1].total_crates
              = Cardinality({f \in ReachedFrom(music, 1) :
                                Yields(music, f, args.include_empty)})
        /\ plan[1].total_tracks = Cardinality(TracksOf(plan[1].crates))
        /\ plan[1].total_tracks
              = Cardinality(UNION {MatchingFiles(music, n.path) :
                                      n \in Nodes(plan[1].crates)})

\* C14 witness: without include_empty, a plan of two nodes and one track
\* over a music folder of three folders, one of them left out
C14_Witness ==
    /\ Planned
    /\ ~args.include_empty
    /\ plan[1].total_crates = 2
    /\ plan[1].total_tracks = 1
    /\ Len(plan[1].crates[1].children) = 1
    /\ Cardinality(ReachedFrom(music, 1)) = 3

(***************************************************************************)
(* Properties of sanitize_crate_filename                                   *)
(***************************************************************************)

\* C15: sanitizing a sanitized name gives that name again, for every name and
\* every budget, truncated names with their ellipsis included.
C15_SanitizeIsIdempotent ==
    Len(returned) = 2 => returned[2] = returned[1]

\* C15 witness: a name that was cut and given the ellipsis, with an accent
\* joined, went through sanitize a second time
C15_Witness ==
    /\ Len(returned) = 2
    /\ returned[1] # given.filename
    /\ Len(returned[1]) >= 2
    /\ returned[1][Len(returned[1])] = "ELLIPSIS"
    /\ "E_ACUTE" \in {returned[1][i] : i \in DOMAIN returned[1]}

\* C16: the name returned is never longer in bytes than max_bytes, and what
\* truncation keeps is whole characters of the name: a prefix of it.
C16_WithinByteBudget ==
    returned # <<>> =>
        /\ Utf8Bytes(returned[1]) <= given.max_bytes
        /\ LET safe == ReplaceReserved(NFC(RemoveInvisible(given.filename)))
               kept == SelectSeq(returned[1], LAMBDA c : c # "ELLIPSIS")
           IN  \E i, j \in 0..Len(safe) : kept = SubSeq(safe, i + 1, j)

\* C16 witness: a name of four bytes cut for a budget of two comes back with
\* the ellipsis, five bytes long
C16_Witness ==
    /\ returned # <<>>
    /\ given.max_bytes = 2
    /\ given.filename = <<"a", "a", "a", "a">>
    /\ returned[1] = <<"a", "a", "ELLIPSIS">>
    /\ Utf8Bytes(returned[1]) = 5

(***************************************************************************)
(* Properties of resolve_track_path                                        *)
(***************************************************************************)

\* the canonical path of the track given, as a string
Canonical == Str(Resolve(given.track, given.links))

\* the call stores the absolute path: the mode is 'absolute', or the track is
\* not below the music root, or its canonical path is not on a mounted volume
StoresAbsolute ==
    \/ given.path_mode = "absolute"
    \/ /\ given.path_mode = "relative-to-music-root"
       /\ \/ given.track.anchor # given.music_root.anchor
          \/ \E i \in 1..Len(given.music_root.parts) :
                i > Len(given.track.parts) \/ given.track.parts[i] # given.music_root.parts[i]
    \/ /\ given.path_mode = "relative-to-volume-root"
       /\ LET parts == Resolve(given.track, given.links).parts
          IN  ~(Len(parts) >= 2 /\ parts[1] = "Volumes")

\* C18 as stated: the string stored is the canonical path with exactly one
\* leading separator removed, also for a canonical path that begins with
\* more than one.
C18_AsStated ==
    (returned # <<>> /\ StoresAbsolute /\ Canonical[1] \in {"/", "\\"}) =>
        returned[1] = Tail(Canonical)

\* C18 amended: the string stored is the canonical path with every leading
\* '/' removed and nothing else: exactly one for a POSIX path, whose canonical
\* form begins with a single '/', none for a path of a drive or of a network
\* share, whose separators are backslashes.
C18_StripsEveryLeadingSlash ==
    (returned # <<>> /\ StoresAbsolute) =>
        /\ \E k \in 0..Len(Canonical) :
              /\ \A i \in 1..k : Canonical[i] = "/"
              /\ returned[1] = SubSeq(Canonical, k + 1, Len(Canonical))
        /\ returned[1] = <<>> \/ returned[1][1] # "/"
        /\ given.track.anchor \in {PosixRoot, PosixRoot2} => returned[1] = Tail(Canonical)
        /\ given.track.anchor \in {DriveRoot, UncRoot} => returned[1] = Canonical

\* C18 witness: in mode relative-to-music-root a track written with two
\* slashes, which is not below the music root, is stored as its canonical
\* path less its one slash
C18_Witness ==
    /\ returned # <<>>
    /\ given.path_mode = "relative-to-music-root"
    /\ given.track = Path(PosixRoot2, <<"m", "t.mp3">>)
    /\ given.links = <<>>
    /\ returned[1] = <<"m", "/", "t.mp3">>

(***************************************************************************)
(* Properties of write_crate_binary                                        *)
(***************************************************************************)

\* the number that four bytes spell, most significant byte first
BigEndian(b) == ((b[1] * 256 + b[2]) * 256 + b[3]) * 256 + b[4]

RECURSIVE ParseChunks(_)
\* the chunks that a sequence of bytes consists of, each a tag of four bytes,
\* a length of four bytes and a payload of that many bytes; bytes that are no
\* chunk are the last element, with no tag
ParseChunks(bytes) ==
    IF bytes = <<>> THEN <<>>
    ELSE IF Len(bytes) < 8 \/ 8 + BigEndian(SubSeq(bytes, 5, 8)) > Len(bytes)
         THEN << [tag |-> <<>>, payload |-> bytes] >>
         ELSE LET length == BigEndian(SubSeq(bytes, 5, 8))
              IN  << [tag |-> SubSeq(bytes, 1, 4), payload |-> SubSeq(bytes, 9, 8 + length)] >>
                  \o ParseChunks(SubSeq(bytes, 9 + length, Len(bytes)))

RECURSIVE Utf16Decode(_)
\* the code points that bytes spell in UTF-16, most significant byte first;
\* -1 for bytes that spell none
Utf16Decode(bytes) ==
    IF bytes = <<>> THEN <<>>
    ELSE IF Len(bytes) < 2 THEN <<-1>>
    ELSE LET unit == bytes[1] * 256 + bytes[2]
         IN  IF unit >= 55296 /\ unit < 56320
             THEN IF Len(bytes) < 4 THEN <<-1>>
                  ELSE LET low == bytes[3] * 256 + bytes[4]
                       IN  <<65536 + (unit - 55296) * 1024 + (low - 56320)>>
                           \o Utf16Decode(SubSeq(bytes, 5, Len(bytes)))
             ELSE <<unit>> \o Utf16Decode(SubSeq(bytes, 3, Len(bytes)))

\* the path stored for the i-th track given
StoredPath(i) ==
    CodePoints(resolve_track_path(given.tracks[i], <<>>, given.path_mode,
                                  given.music_root))

\* C17: the bytes written are one 'vrsn' chunk, then one 'otrk' chunk for
\* each track in the order of the track list, and nothing else; each chunk is
\* a tag of four bytes, the length of its payload in four bytes, most
\* significant first, and the payload; the payload of an 'otrk' chunk is one
\* 'ptrk' chunk that holds the resolved path of the track in UTF-16, most
\* significant byte first.
C17_BinaryLayout ==
    returned # <<>> =>
        LET chunks == ParseChunks(returned[1])
        IN  /\ Len(chunks) = 1 + Len(given.tracks)
            /\ chunks[1].tag = <<118, 114, 115, 110>>
            /\ \A i \in 1..Len(given.tracks) :
                  /\ chunks[i + 1].tag = <<111, 116, 114, 107>>
                  /\ LET inner == ParseChunks(chunks[i + 1].payload)
                     IN  /\ Len(inner) = 1
                         /\ inner[1].tag = <<112, 116, 114, 107>>
                         /\ Utf16Decode(inner[1].payload) = StoredPath(i)
                         /\ Len(inner[1].payload) >= 2 * Len(StoredPath(i))

\* C17 witness: a crate of two tracks, the first with a character outside the
\* basic plane, the second plain, written in that order
C17_Witness ==
    /\ returned # <<>>
    /\ given.path_mode = "absolute"
    /\ given.tracks = << Path(PosixRoot, <<"CLEF">>), Path(PosixRoot, <<"m", "t.mp3">>) >>
    /\ Len(returned[1]) = (8 + 56) + (8 + 8 + 4) + (8 + 8 + 14)

(***************************************************************************)
(* Further properties of execute_sync and write_crates_to_sqlite           *)
(***************************************************************************)

\* an applying run that found no Subcrates folder
NoSubcratesFound == args.apply /\ before.subcrates = <<>>

\* C19: when there is no Subcrates folder, backup_subcrates makes no backup
\* folder, returns no path and raises nothing, and execute_sync goes on to
\* the write step.
C19_NoSubcratesNoBackup ==
    NoSubcratesFound =>
        /\ backups = before.backups
        /\ backup_path = <<>>
        /\ outcome \in {"running", "success"}
        /\ pc \in {"backup", "mkdir", "clean", "write"} => ENABLED Next
        /\ pc \in {"clean", "write", "write_crate", "report", "exit"} => subcrates # <<>>
        /\ pc = "exit" => outcome = "success"

\* C19 witness: a run that found no Subcrates folder has written two crates
\* into a new one and returned, and no backup folder was added
C19_Witness ==
    /\ NoSubcratesFound
    /\ outcome = "success"
    /\ crates_created = 2
    /\ backups = before.backups
    /\ before.backups # NoBackups

\* the rows the current run inserted, in the order of their insertion
InsertedRows ==
    LET inserts == SelectSeq(log, LAMBDA e : ~e.existed)
    IN  [i \in 1..Len(inserts) |->
            CHOOSE r \in db[1].container : r.id = inserts[i].crate_id]

\* C20: after a run that committed, on a database whose serato table has its
\* one row, the revision stored is the revision found plus the number of rows
\* created, and the rows inserted have revisions above the one found, each
\* greater than that of the row inserted before it.
C20_RevisionCountsInserts ==
    (pc = "main" /\ outcome = "committed" /\ Len(before.db[1].serato) = 1) =>
        /\ db[1].serato[1].revision = before.db[1].serato[1].revision + crates_created
        /\ Len(InsertedRows) = crates_created
        /\ \A i \in 1..Len(InsertedRows) :
              /\ InsertedRows[i].revision > before.db[1].serato[1].revision
              /\ \A j \in 1..Len(InsertedRows) :
                    i < j => InsertedRows[i].revision < InsertedRows[j].revision

\* C20 witness: a run found revision 4 and some of its crates, inserted two
\* more, and stored revision 6
C20_Witness ==
    /\ pc = "main"
    /\ outcome = "committed"
    /\ Len(before.db[1].serato) = 1
    /\ before.db[1].serato[1].revision = 4
    /\ crates_created = 2
    /\ crates_skipped >= 1
    /\ db[1].serato[1].revision = 6

RECURSIVE Positions(_, _)
\* the nodes of a plan: the folder of each, its place (from 1) in the list
\* it is in, and whether that list is plan.crates
Positions(crates, top) ==
    UNION { {[path |-> crates[i].path, position |-> i, top |-> top]}
               \cup Positions(crates[i].children, FALSE) : i \in DOMAIN crates }

\* the node of the current plan made from a folder
NodeAt(path) == CHOOSE n \in Positions(plan[1].crates, TRUE) : n.path = path

\* the row of the committed table that a call of the current run resolved
RowOf(entry) == CHOOSE r \in db[1].container : r.id = entry.crate_id

\* the calls of the current run that inserted a row
Inserts == {i \in DOMAIN log : ~log[i].existed}

\* C21: after a run that committed, the row inserted for a top-level plan
\* node has a list_order above that of every row that had parent_id 0 before
\* the run, and the row inserted for a nested node has the position of the
\* node among the children of its parent in the plan, counted from 1, skipped
\* siblings included.
C21_ListOrderOfInsertedRows ==
    (pc = "main" /\ outcome = "committed") =>
        \A i \in Inserts :
           IF NodeAt(log[i].path).top
           THEN \A q \in RowsUnder(before.db[1], 0) :
                    RowOf(log[i]).list_order > q.list_order
           ELSE RowOf(log[i]).list_order = NodeAt(log[i].path).position

\* C21 witness: the run found M and its first child A, and inserted the
\* second child B with list_order 2
C21_Witness ==
    /\ pc = "main"
    /\ outcome = "committed"
    /\ Len(log) = 3
    /\ log[1].existed
    /\ log[2].existed
    /\ ~log[3].existed
    /\ NodeAt(log[3].path).position = 2
    /\ RowOf(log[3]).list_order = 2
    /\ RowOf(log[3]).parent_id = log[1].crate_id

\* the container table as the current run of the writer has it: the one of
\* its connection while it runs, the committed one when it has ended
ContainerNow == IF txn # <<>> THEN txn[1].container ELSE db[1].container

\* the writer is running, or has ended, on a database file that was there
WriterRan ==
    \/ pc = "create_crate"
    \/ pc = "main" /\ outcome \in {"committed", "failed"}

\* C22: at every point of a run of the writer, and when it has ended, every
\* row that was in container before the run is there with the columns it had,
\* whatever its type, the rows found by the lookup among them, and every
\* other row of the table is a row of type 1 with an id that no row had.
C22_OnlyInsertsOfCrates ==
    WriterRan =>
        /\ before.db[1].container \subseteq ContainerNow
        /\ \A r \in ContainerNow \ before.db[1].container :
              /\ r.type = 1
              /\ r.id \notin {q.id : q \in before.db[1].container}
        /\ \A i \in DOMAIN log :
              log[i].existed =>
                 \E r \in before.db[1].container :
                    /\ r.id = log[i].crate_id
                    /\ r \in ContainerNow

\* C22 witness: a run on the library with its four rows, two of them of
\* other types, found M and A and inserted B beside A and the row of type 2
C22_Witness ==
    /\ pc = "main"
    /\ outcome = "committed"
    /\ before.db[1].container = LibraryRows
    /\ Len(log) = 3
    /\ log[1].existed
    /\ log[2].existed
    /\ ~log[3].existed
    /\ Cardinality(db[1].container) = 5
    /\ \E r \in db[1].container, s \in LibraryRows :
          /\ r.id = log[3].crate_id
          /\ s.type = 2
          /\ s.parent_id = r.parent_id
          /\ s.list_order = r.list_order

RECURSIVE ParentPaths(_, _)
\* the nodes of a plan, each with the folder of the node it is a child of,
\* <<>> for a node of plan.crates
ParentPaths(crates, parent) ==
    UNION { {[path |-> crates[i].path, parent |-> parent]}
               \cup ParentPaths(crates[i].children, <<crates[i].path>>)
            : i \in DOMAIN crates }

\* the folder of the parent node of the node made from a folder, as a
\* sequence: <<>> for a plan root
ParentOf(path) ==
    (CHOOSE n \in ParentPaths(plan[1].crates, <<>>) : n.path = path).parent

\* the row a call of the current run resolved, in the table as it is now
RowNow(entry) == CHOOSE r \in ContainerNow : r.id = entry.crate_id

\* C23: at every point of a run of the writer that has not failed, every call
\* made so far has resolved a row that is in the table; the row inserted for a
\* plan root has parent_id 0, and the row inserted for another node has as
\* parent_id the id of the row resolved, by an earlier call, for the parent
\* node, found or inserted.
C23_ParentBeforeChildren ==
    (pc = "create_crate" \/ (pc = "main" /\ outcome = "committed")) =>
        \A i \in DOMAIN log :
           /\ \E r \in ContainerNow : r.id = log[i].crate_id
           /\ ~log[i].existed =>
                 IF ParentOf(log[i].path) = <<>>
                 THEN RowNow(log[i]).parent_id = 0
                 ELSE \E j \in 1..(i - 1) :
                         /\ log[j].path = ParentOf(log[i].path)[1]
                         /\ RowNow(log[i]).parent_id = log[j].crate_id
                         /\ \E r \in ContainerNow : r.id = log[j].crate_id

\* C23 witness: the run found M, inserted X under the row found, and has
\* just inserted Y under the row inserted for X
C23_Witness ==
    /\ pc = "create_crate"
    /\ Len(log) = 3
    /\ log[1].existed
    /\ ~log[2].existed
    /\ ~log[3].existed
    /\ ParentOf(log[3].path) = <<log[2].path>>
    /\ RowNow(log[2]).parent_id = log[1].crate_id
    /\ RowNow(log[3]).parent_id = log[2].crate_id
    /\ log[2].crate_id \notin {r.id : r \in before.db[1].container}

\* the user crates of a table that have the same parent and the same
\* list_order as another user crate of it
SharedListOrder(tables) ==
    {r \in tables.container :
        /\ r.type = 1
        /\ \E q \in tables.container :
              /\ q.type = 1
              /\ q.id # r.id
              /\ q.parent_id = r.parent_id
              /\ q.list_order = r.list_order}

\* C24: between the runs of the writer, whatever the plans of the runs were,
\* no two rows of type 1 with the same parent_id have the same list_order.
C24_SiblingsHaveDistinctListOrder ==
    (pc = "main" /\ db # <<>>) => SharedListOrder(db[1]) = {}

\* C24 witness: a first run wrote M, X and Y into an empty library, a second
\* run with another plan found M and inserted a first child beside X, and
\* the two children of M have list_order 1
C24_Witness ==
    /\ pc = "main"
    /\ outcome = "committed"
    /\ prev # <<>>
    /\ prev[1].outcome = "committed"
    /\ prev[1].crates_created = 3
    /\ SharedListOrder(prev[1].db[1]) = {}
    /\ log # <<>>
    /\ log[1].existed
    /\ \E i \in Inserts :
          /\ RowOf(log[i]) \in SharedListOrder(db[1])
          /\ RowOf(log[i]).parent_id = log[1].crate_id
          /\ RowOf(log[i]).list_order = 1

\* the run wrote into a Subcrates folder that was missing or empty, with
\* overwrite on, no write raised for good, and execute_sync has returned
CleanOverwriteRun ==
    /\ outcome = "success"
    /\ library
    /\ overwrite
    /\ before.subcrates \in {<<>>, <<NoFiles>>}
    /\ \A i \in DOMAIN log : log[i].attempt \in {"lib", "bin"}

\* C25: in one run of the file writer no two plan nodes have the same crate
\* file, and after a run with overwrite, without failed writes, into an empty
\* Subcrates folder, there are as many crate files as the plan has crates and
\* as the run counted as created.
C25_DistinctNodesDistinctFiles ==
    /\ \A i, j \in DOMAIN log : i # j => log[i].file # log[j].file
    /\ CleanOverwriteRun =>
          /\ Cardinality(GlobCrates(subcrates[1])) = plan[1].total_crates
          /\ crates_created = plan[1].total_crates

\* C25 witness: a run of that kind wrote the three crates of a plan whose
\* second and third node have one file name, and left two crate files, the
\* shared one with the tracks of the third node
C25_Witness ==
    /\ CleanOverwriteRun
    /\ plan[1].total_crates = 3
    /\ crates_created = 3
    /\ Len(log) = 3
    /\ log[2].file = log[3].file
    /\ log[2].path # log[3].path
    /\ Cardinality(GlobCrates(subcrates[1])) = 2
    /\ subcrates[1][log[3].file].crate = log[3].path

\* execute_sync was called on a serato root with a Subcrates folder, and
\* its call of backup_subcrates is over
PastBackup ==
    /\ args.apply
    /\ before.subcrates # <<>>
    /\ pc \notin {"main", "planned", "backup"}

\* the copy into a backup folder of a new name broke off
CopyBrokeOff == outcome = "raised" /\ clock \notin DOMAIN before.backups

\* C26: in every run of execute_sync that finds a Subcrates folder, unless
\* copying into a new folder fails, the backup step makes a backup folder
\* that none of the earlier runs made, and leaves the backup folders of the
\* earlier runs as they were, also when the run starts in the second in which
\* an earlier run started.
C26_EveryRunMakesItsOwnBackup ==
    (PastBackup /\ ~CopyBrokeOff) =>
        /\ backup_path # <<>>
        /\ backup_path[1] \in DOMAIN backups \ DOMAIN before.backups
        /\ \A t \in DOMAIN before.backups :
              t \in DOMAIN backups /\ backups[t] = before.backups[t]

\* C26 witness: the second run started in the second of the first, which had
\* made its backup and returned; it found the Subcrates folder, made no
\* backup folder, and ended with the exception of the copy
C26_Witness ==
    /\ runs = 2
    /\ prev[1].outcome = "success"
    /\ PastBackup
    /\ DOMAIN before.backups = {clock}
    /\ before.backups[clock] # NoFiles
    /\ backups = before.backups
    /\ backup_path = <<>>
    /\ outcome = "raised"
    /\ pc = "exit"
    /\ subcrates = before.subcrates

====
